---- MODULE Spec2Model ----
(***************************************************************************)
(* Fungible contract runtime of rgb-node                                   *)
(* (src/src/contracts/fungible/runtime.rs): the server loop, the request   *)
(* handlers and the stash-first commit protocol of import_asset.           *)
(***************************************************************************)
EXTENDS Integers, Sequences, FiniteSets, TLC

\* ------------------------------------------------------------------ bounds
\* largest supply bound a client may give
MaxSupply == 2
\* largest amount of an input or an allocation of a Transfer request
MaxAmount == 1

\* ------------------------------------------------------------------ values
NoMsg == [kind |-> "none"]
NoError == "none"
\* Option<T>: None is the empty tuple, Some(x) the one-element tuple
None == <<>>
Some(x) == <<x>>

\* the ticker clients issue, and the empty ticker the Processor refuses
Tickers == {"USDX"}
NoTicker == ""

\* IssueStructure: SingleIssue | MultipleIssues { max_supply, reissue_control }
SingleIssue == [tag |-> "SingleIssue", max_supply |-> 0]
MultipleIssues(max) == [tag |-> "MultipleIssues", max_supply |-> max]
IssueStructure == {SingleIssue} \cup {MultipleIssues(m) : m \in 1..MaxSupply}

\* Genesis records of the fungible schema, and one genesis of another schema
FungibleGenesis == [schema : {"fungible"}, ticker : Tickers, structure : IssueStructure]
ForeignGenesis == [schema |-> "other", ticker |-> NoTicker, structure |-> SingleIssue]
Genesis == FungibleGenesis \cup {ForeignGenesis}

\* the contract id is derived from the genesis record, one id per genesis
ContractId(genesis) == <<genesis.schema, genesis.ticker, genesis.structure.max_supply>>

ContractIds == {ContractId(g) : g \in FungibleGenesis}

\* Asset::try_from(genesis): the asset record of a fungible genesis
AssetOf(genesis) ==
    [id |-> ContractId(genesis), ticker |-> genesis.ticker,
     structure |-> genesis.structure]

AssetTryFrom(genesis) ==
    IF genesis.schema = "fungible"
    THEN [ok |-> TRUE, asset |-> AssetOf(genesis)]
    ELSE [ok |-> FALSE, asset |-> AssetOf(genesis)]

\* ----------------------------------------------------------------- replies
Success == [kind |-> "Success", domain |-> NoError, service |-> NoError, data |-> {}]
Failure(domain, service) ==
    [kind |-> "Failure", domain |-> domain, service |-> service, data |-> {}]
SyncReply(data) == [kind |-> "Sync", domain |-> NoError, service |-> NoError, data |-> data]

\* ServiceError::contract(err, "fungible") turned into a Reply
ContractFailure(domain) == Failure(domain, "contract:fungible")
\* ServiceError::from_rpc(ServiceErrorSource::Stash, err) turned into a Reply
RpcFailure == Failure("rpc", "stash")

\* ---------------------------------------------------------------- requests
Garbage == [kind |-> "garbage"]
IssueRequests ==
    [kind : {"Issue"}, ticker : Tickers \cup {NoTicker}, inflatable : BOOLEAN,
     supply : {None} \cup {Some(n) : n \in 1..MaxSupply}]
TransferRequests ==
    [kind : {"Transfer"}, contract_id : ContractIds, inputs : 0..MaxAmount,
     ours : 0..MaxAmount, theirs : 0..MaxAmount]
ImportRequests == [kind : {"ImportAsset"}, genesis : Genesis]
SyncRequest == [kind |-> "Sync"]
Request == IssueRequests \cup TransferRequests \cup ImportRequests \cup {SyncRequest}
RawMessages == Request \cup {Garbage}

\* ------------------------------------------------------------ Asset Cache
EmptyCache == [id \in {} |-> AssetOf(ForeignGenesis)]

\* Cache::asset(contract_id): the asset, or a not-found error
cache_asset(cache, id) ==
    IF id \in DOMAIN cache
    THEN [ok |-> TRUE, asset |-> cache[id]]
    ELSE [ok |-> FALSE, asset |-> AssetOf(ForeignGenesis)]

\* fault model: the record is replaced and the "was present" flag returned
add_asset_overwrite(cache, asset) ==
    [cache |-> [id \in DOMAIN cache \cup {asset.id} |->
                   IF id = asset.id THEN asset ELSE cache[id]],
     inserted |-> asset.id \in DOMAIN cache]

\* Cache::add_asset(asset): inserts unless the contract id is present, and
\* returns whether the id was newly inserted
add_asset(cache, asset) ==
    IF asset.id \in DOMAIN cache
    THEN [cache |-> cache, inserted |-> FALSE]
    ELSE [cache |-> [id \in DOMAIN cache \cup {asset.id} |->
                        IF id = asset.id THEN asset ELSE cache[id]],
          inserted |-> TRUE]

\* Cache::export(): the serialised list of all asset records
export(cache) == {cache[id] : id \in DOMAIN cache}

\* ------------------------------------------------------ Contract Processor
\* Processor::issue: validates the arguments and builds (Asset, Genesis)
processor_issue(ticker, issue_structure) ==
    IF ticker \in Tickers
    THEN LET genesis == [schema |-> "fungible", ticker |-> ticker,
                         structure |-> issue_structure]
         IN  [ok |-> TRUE, asset |-> AssetOf(genesis), genesis |-> genesis]
    ELSE [ok |-> FALSE, asset |-> AssetOf(ForeignGenesis), genesis |-> ForeignGenesis]

\* Processor::transfer: amount conservation over the consumed inputs
processor_transfer(asset, inputs, ours, theirs) ==
    [ok |-> ours + theirs <= inputs]

\* ------------------------------------------------------------------- state
VARIABLES
    pc,           \* position of try_run_loop / run / import_asset
    raw,          \* the raw client message of the request in progress
    pending,      \* (asset, genesis) arguments of the import_asset call in progress
    reply,        \* the Reply that run() is about to encode and send
    delivered,    \* the reply the client received for the request in progress
    exit_err,     \* why try_run_loop returned: "none", "recv", "encode", "send"
    cacher,       \* FileCache: contract id -> Asset
    stash_chan,   \* stash request/reply channel: idle, a request or a reply in flight
    stash_store,  \* genesis records the stash peer has stored
    h_cache0,     \* history: the cache when the request in progress was received
    h_events,     \* history: what the request in progress has done so far
    h_confirmed,  \* history: geneses whose AddGenesis got a non-failure reply
    h_completed,  \* history: assets whose cache insert returned without error
    h_success,    \* history: assets whose commit was answered with a sent Success
    h_kind,       \* history: the kind of the request in progress or last handled
    h_overspend,  \* history: that request is a Transfer allocating more than its inputs
    h_sent,       \* history: replies sent on the client channel since the last receive
    h_recv_failed \* history: a receive on the stash channel has failed

vars == <<pc, raw, pending, reply, delivered, exit_err, cacher, stash_chan,
          stash_store, h_cache0, h_events, h_confirmed, h_completed, h_success,
          h_kind, h_overspend, h_sent, h_recv_failed>>

NoPending == [asset |-> AssetOf(ForeignGenesis), genesis |-> ForeignGenesis, set |-> FALSE]

Init ==
    /\ pc = "recv"
    /\ raw = NoMsg
    /\ pending = NoPending
    /\ reply = NoMsg
    /\ delivered = NoMsg
    /\ exit_err = "none"
    /\ cacher = EmptyCache
    /\ stash_chan = NoMsg
    /\ stash_store = {}
    /\ h_cache0 = EmptyCache
    /\ h_events = <<>>
    /\ h_confirmed = {}
    /\ h_completed = {}
    /\ h_success = {}
    /\ h_kind = "none"
    /\ h_overspend = FALSE
    /\ h_sent = 0
    /\ h_recv_failed = FALSE

\* ------------------------------------------------------------- server loop
\* the handler returned Ok(reply): run() goes on to encode and send it
Respond(r, events) ==
    /\ reply' = r
    /\ pc' = "reply"
    /\ h_events' = events
    /\ UNCHANGED exit_err

\* fault model: the error is propagated with ? and ends the loop
FailExits(r, events) ==
    /\ pc' = "exit"
    /\ exit_err' = "handler"
    /\ h_events' = events
    /\ UNCHANGED reply

\* the handler (or the decoding) returned an error: rpc_process turns it into
\* Err(Reply::Failure) and run() takes it as the reply (unwrap_or_else)
Fail(r, events) == Respond(r, events)

\* the request goes on inside import_asset
Goto(position, events) ==
    /\ pc' = position
    /\ h_events' = events
    /\ UNCHANGED <<reply, exit_err>>

\* run(): recv_raw_message on the client channel fails; the error leaves
\* run() and try_run_loop returns it
run_recv_fail ==
    /\ pc = "recv"
    /\ pc' = "exit"
    /\ exit_err' = "recv"
    /\ UNCHANGED <<raw, pending, reply, delivered, cacher, stash_chan, stash_store,
                   h_cache0, h_events, h_confirmed, h_completed, h_success>>
    /\ UNCHANGED <<h_kind, h_overspend, h_sent, h_recv_failed>>

\* run(): a raw request arrives on the client channel
run_recv ==
    /\ pc = "recv"
    /\ \E m \in RawMessages : raw' = m
    /\ pc' = "process"
    /\ pending' = NoPending
    /\ delivered' = NoMsg
    /\ h_cache0' = cacher
    /\ h_events' = <<>>
    /\ h_kind' = raw'.kind
    /\ h_overspend' = (raw'.kind = "Transfer" /\ raw'.ours + raw'.theirs > raw'.inputs)
    /\ h_sent' = 0
    /\ UNCHANGED <<reply, exit_err, cacher, stash_chan, stash_store, h_confirmed,
                   h_completed, h_success>>
    /\ UNCHANGED <<h_recv_failed>>

\* rpc_process: the raw message cannot be unmarshalled
rpc_process_decode_fail ==
    /\ pc = "process"
    /\ raw = Garbage
    /\ Fail(RpcFailure, Append(h_events, "err.decode"))
    /\ UNCHANGED <<raw, pending, delivered, cacher, stash_chan, stash_store,
                   h_cache0, h_confirmed, h_completed, h_success>>
    /\ UNCHANGED <<h_kind, h_overspend, h_sent, h_recv_failed>>

\* fault model: the cache is updated before the stash round trip
import_asset_cache_first(asset, genesis, events) ==
    /\ stash_chan = NoMsg
    /\ stash_chan' = [kind |-> "AddGenesis", genesis |-> genesis]
    /\ pending' = [asset |-> asset, genesis |-> genesis, set |-> TRUE]
    /\ cacher' = add_asset(cacher, asset).cache
    /\ UNCHANGED h_completed
    /\ Goto("stash_wait", Append(events, "stash.send"))

\* fault model: AddGenesis is sent and its reply is not awaited
import_asset_no_wait(asset, genesis, events) ==
    /\ stash_chan = NoMsg
    /\ stash_chan' = [kind |-> "AddGenesis", genesis |-> genesis]
    /\ pending' = [asset |-> asset, genesis |-> genesis, set |-> TRUE]
    /\ Respond(ContractFailure("storage"), Append(events, "stash.send"))
    /\ UNCHANGED <<cacher, h_completed>>

\* import_asset up to its blocking receive: encode AddGenesis and send it on
\* the stash channel (a request socket: one request outstanding at a time)
import_asset_send(asset, genesis, events) ==
    \/ /\ Fail(ContractFailure("encoding"), Append(events, "err.encode"))
       /\ UNCHANGED <<pending, stash_chan, cacher, h_completed>>
    \/ /\ Fail(ContractFailure("transport"), Append(events, "err.send"))
       /\ UNCHANGED <<pending, stash_chan, cacher, h_completed>>
    \/ /\ stash_chan = NoMsg
       /\ stash_chan' = [kind |-> "AddGenesis", genesis |-> genesis]
       /\ pending' = [asset |-> asset, genesis |-> genesis, set |-> TRUE]
       /\ Goto("stash_wait", Append(events, "stash.send"))
       /\ UNCHANGED <<cacher, h_completed>>

\* fault model: a missing supply is defaulted instead of refused
issue_structure_defaulted(issue) ==
    IF ~issue.inflatable \/ issue.supply = None
    THEN [ok |-> TRUE, structure |-> SingleIssue]
    ELSE [ok |-> TRUE, structure |-> MultipleIssues(issue.supply[1])]

\* rpc_issue: the issue structure of the request, or the missing argument
issue_structure(issue) ==
    IF ~issue.inflatable
    THEN [ok |-> TRUE, structure |-> SingleIssue]
    ELSE IF issue.supply = None
         THEN [ok |-> FALSE, structure |-> SingleIssue]
         ELSE [ok |-> TRUE, structure |-> MultipleIssues(issue.supply[1])]

rpc_issue ==
    /\ pc = "process"
    /\ raw.kind = "Issue"
    /\ LET s == issue_structure(raw)
           r == processor_issue(raw.ticker, s.structure)
           ev == Append(h_events, "processor.issue")
       IN  IF ~s.ok
           THEN /\ Fail(ContractFailure("api:MissedArgument:supply"),
                        Append(h_events, "err.api"))
                /\ UNCHANGED <<pending, stash_chan, cacher, h_completed>>
           ELSE IF ~r.ok
                THEN /\ Fail(ContractFailure("contract"), Append(ev, "err.processor"))
                     /\ UNCHANGED <<pending, stash_chan, cacher, h_completed>>
                ELSE import_asset_send(r.asset, r.genesis, ev)
    /\ UNCHANGED <<raw, delivered, stash_store, h_cache0, h_confirmed, h_success>>
    /\ UNCHANGED <<h_kind, h_overspend, h_sent, h_recv_failed>>

rpc_import_asset ==
    /\ pc = "process"
    /\ raw.kind = "ImportAsset"
    /\ LET a == AssetTryFrom(raw.genesis)
       IN  IF ~a.ok
           THEN /\ Fail(ContractFailure("schema"), Append(h_events, "err.schema"))
                /\ UNCHANGED <<pending, stash_chan, cacher, h_completed>>
           ELSE import_asset_send(a.asset, raw.genesis, h_events)
    /\ UNCHANGED <<raw, delivered, stash_store, h_cache0, h_confirmed, h_success>>
    /\ UNCHANGED <<h_kind, h_overspend, h_sent, h_recv_failed>>

\* fault model: a missing asset is replaced by a default one
transfer_asset_default(cache, id) ==
    IF id \in DOMAIN cache
    THEN [ok |-> TRUE, asset |-> cache[id]]
    ELSE [ok |-> TRUE, asset |-> AssetOf(ForeignGenesis)]

\* rpc_transfer: self.cacher.asset(transfer.contract_id)?
transfer_asset(cache, id) == cache_asset(cache, id)

\* fault model: the result of Processor::transfer is dropped
transfer_unchecked(result) == TRUE

\* rpc_transfer: self.processor.transfer(...)? returned Ok
transfer_checked(result) == result.ok

\* fault model: the asset the Processor worked on is written back
transfer_cache_writeback(cache, asset) ==
    [id \in DOMAIN cache |->
        IF id = asset.id THEN [asset EXCEPT !.ticker = NoTicker] ELSE cache[id]]

\* fault model: the asset is taken out of the cache instead of cloned
transfer_cache_take(cache, asset) ==
    [id \in DOMAIN cache \ {asset.id} |-> cache[id]]

\* rpc_transfer: the Processor works on a clone of the cached asset, and the
\* consignment is not saved
transfer_cache_effect(cache, asset) == cache

rpc_transfer ==
    /\ pc = "process"
    /\ raw.kind = "Transfer"
    /\ LET a == transfer_asset(cacher, raw.contract_id)
           ev == Append(h_events, "processor.transfer")
       IN  IF ~a.ok
           THEN /\ Fail(ContractFailure("storage"), Append(h_events, "err.lookup"))
                /\ UNCHANGED cacher
           ELSE /\ cacher' = transfer_cache_effect(cacher, a.asset)
                /\ IF ~transfer_checked(
                          processor_transfer(a.asset, raw.inputs, raw.ours, raw.theirs))
                   THEN Fail(ContractFailure("contract"), Append(ev, "err.processor"))
                   ELSE Respond(Success, ev)
    /\ UNCHANGED <<raw, pending, delivered, stash_chan, stash_store,
                   h_cache0, h_confirmed, h_completed, h_success>>
    /\ UNCHANGED <<h_kind, h_overspend, h_sent, h_recv_failed>>

rpc_sync ==
    /\ pc = "process"
    /\ raw.kind = "Sync"
    /\ \/ Fail(ContractFailure("storage"), Append(h_events, "err.export"))
       \/ Respond(SyncReply(export(cacher)), h_events)
    /\ UNCHANGED <<raw, pending, delivered, cacher, stash_chan, stash_store,
                   h_cache0, h_confirmed, h_completed, h_success>>
    /\ UNCHANGED <<h_kind, h_overspend, h_sent, h_recv_failed>>

\* the stash peer answers the AddGenesis in flight
stashd_answer ==
    /\ stash_chan.kind = "AddGenesis"
    /\ \/ /\ stash_store' = stash_store \cup {stash_chan.genesis}
          /\ stash_chan' = [kind |-> "Success"]
       \/ /\ stash_chan' = [kind |-> "Failure"]
          /\ UNCHANGED stash_store
       \/ /\ stash_chan' = [kind |-> "garbage"]
          /\ UNCHANGED stash_store
    /\ UNCHANGED <<pc, raw, pending, reply, delivered, exit_err, cacher,
                   h_cache0, h_events, h_confirmed, h_completed, h_success>>
    /\ UNCHANGED <<h_kind, h_overspend, h_sent, h_recv_failed>>

\* fault model: the failure of the stash is logged and not returned
StashRejectsNever(r) == FALSE

\* import_asset: is the stash reply a Reply::Failure
StashRejects(r) == r.kind = "Failure"

\* fault model: the receive gives up after a timeout while no answer is there
import_asset_recv_timeout ==
    /\ pc = "stash_wait"
    /\ stash_chan.kind = "AddGenesis"
    /\ Fail(ContractFailure("storage"), Append(h_events, "stash.timeout"))
    /\ UNCHANGED <<raw, pending, delivered, cacher, stash_chan, stash_store, h_cache0,
                   h_confirmed, h_completed, h_success>>
    /\ UNCHANGED <<h_kind, h_overspend, h_sent, h_recv_failed>>

\* fault model: a reply that cannot be decoded is not taken as an error
stash_reply_decodes_any(r) == TRUE

\* import_asset: self.reply_unmarshaller.unmarshall(&raw)? returned Ok
stash_reply_decodes(r) == r.kind # "garbage"

\* import_asset: the blocking receive on the stash channel and the check of
\* the reply
import_asset_recv ==
    /\ pc = "stash_wait"
    /\ \/ /\ Fail(ContractFailure("transport"), Append(h_events, "stash.recv_err"))
          /\ h_recv_failed' = TRUE
          /\ UNCHANGED <<stash_chan, h_confirmed>>
       \/ /\ stash_chan.kind \in {"Success", "Failure", "garbage"}
          /\ stash_chan' = NoMsg
          /\ UNCHANGED h_recv_failed
          /\ h_confirmed' = IF stash_chan.kind = "Success"
                            THEN h_confirmed \cup {pending.genesis} ELSE h_confirmed
          /\ LET ev == Append(h_events, "stash." \o stash_chan.kind)
             IN  IF ~stash_reply_decodes(stash_chan)
                 THEN Fail(ContractFailure("rpc"), ev)
                 ELSE IF StashRejects(stash_chan)
                      THEN Fail(ContractFailure("storage"), ev)
                      ELSE Goto("cache", ev)
    /\ UNCHANGED <<raw, pending, delivered, cacher, stash_store, h_cache0,
                   h_completed, h_success>>
    /\ UNCHANGED <<h_kind, h_overspend, h_sent>>

\* fault model: an asset that was already cached is reported as an error
commit_reply_new_only(inserted) ==
    IF inserted THEN Success ELSE ContractFailure("cache")

\* rpc_issue / rpc_import_asset: the reply once import_asset returned Ok(bool)
commit_reply(inserted) == Success

\* fault model: the result of add_asset is dropped
cache_error_ignored == Success

\* import_asset: what becomes of an error of cacher.add_asset
cache_error_reply == ContractFailure("cache")

\* import_asset: the cache insert that follows a non-failure stash reply
import_asset_add ==
    /\ pc = "cache"
    /\ \/ /\ pending.asset.id \notin DOMAIN cacher
          /\ IF cache_error_reply.kind = "Failure"
             THEN Fail(cache_error_reply, Append(h_events, "cache.err"))
             ELSE Respond(cache_error_reply, Append(h_events, "cache.err"))
          /\ UNCHANGED <<cacher, h_completed>>
       \/ LET r == add_asset(cacher, pending.asset)
          IN  /\ cacher' = r.cache
              /\ h_completed' = h_completed \cup {pending.asset}
              /\ Respond(commit_reply(r.inserted),
                         Append(h_events, IF r.inserted THEN "cache.inserted"
                                          ELSE "cache.present"))
    /\ UNCHANGED <<raw, pending, delivered, stash_chan, stash_store, h_cache0,
                   h_confirmed, h_success>>
    /\ UNCHANGED <<h_kind, h_overspend, h_sent, h_recv_failed>>

\* run(): reply.encode() fails; the error leaves run() and ends the loop
run_encode_fail ==
    /\ pc = "reply"
    /\ pc' = "exit"
    /\ exit_err' = "encode"
    /\ UNCHANGED <<raw, pending, reply, delivered, cacher, stash_chan, stash_store,
                   h_cache0, h_events, h_confirmed, h_completed, h_success>>
    /\ UNCHANGED <<h_kind, h_overspend, h_sent, h_recv_failed>>

\* run(): send_raw_message on the client channel fails
run_send_fail ==
    /\ pc = "reply"
    /\ pc' = "exit"
    /\ exit_err' = "send"
    /\ UNCHANGED <<raw, pending, reply, delivered, cacher, stash_chan, stash_store,
                   h_cache0, h_events, h_confirmed, h_completed, h_success>>
    /\ UNCHANGED <<h_kind, h_overspend, h_sent, h_recv_failed>>

\* fault model: run() returns without sending and the loop takes its next turn
run_send_dropped ==
    /\ pc = "reply"
    /\ pc' = "recv"
    /\ raw' = NoMsg
    /\ reply' = NoMsg
    /\ UNCHANGED <<pending, delivered, exit_err, cacher, stash_chan, stash_store,
                   h_cache0, h_events, h_confirmed, h_completed, h_success>>
    /\ UNCHANGED <<h_kind, h_overspend, h_sent, h_recv_failed>>

\* run(): the reply is sent to the client and the loop takes its next turn
run_send ==
    /\ pc = "reply"
    /\ delivered' = reply
    /\ pc' = "recv"
    /\ h_success' = IF reply.kind = "Success" /\ pending.set
                    THEN h_success \cup {pending.asset} ELSE h_success
    /\ raw' = NoMsg
    /\ reply' = NoMsg
    /\ h_sent' = h_sent + 1
    /\ UNCHANGED <<pending, exit_err, cacher, stash_chan, stash_store, h_cache0,
                   h_events, h_confirmed, h_completed>>
    /\ UNCHANGED <<h_kind, h_overspend, h_recv_failed>>

Next ==
    \/ run_recv_fail
    \/ run_recv
    \/ rpc_process_decode_fail
    \/ rpc_issue
    \/ rpc_transfer
    \/ rpc_import_asset
    \/ rpc_sync
    \/ stashd_answer
    \/ import_asset_recv
    \/ import_asset_add
    \/ run_encode_fail
    \/ run_send_fail
    \/ run_send

Spec == Init /\ [][Next]_vars

\* ------------------------------------------------------------ history views
Events == {h_events[i] : i \in DOMAIN h_events}
ErrorEvents ==
    {"err.decode", "err.encode", "err.send", "err.api", "err.processor",
     "err.schema", "err.lookup", "err.export", "stash.recv_err",
     "stash.garbage", "stash.Failure", "cache.err"}
HandlerErred == Events \cap ErrorEvents # {}
Last(seq) == IF seq = <<>> THEN "" ELSE seq[Len(seq)]

\* the reply of the current (or, while waiting for the next, the last) request
ReplyOfRequest == IF reply # NoMsg THEN reply ELSE delivered
\* the stash answered the AddGenesis of this request with Reply::Failure
StashRejected == "stash.Failure" \in Events

TypeOK ==
    /\ pc \in {"recv", "process", "stash_wait", "cache", "reply", "exit"}
    /\ exit_err \in {"none", "recv", "encode", "send"}
    /\ DOMAIN cacher \subseteq ContractIds

\* ------------------------------------------------------------------ claims

\* C1: every asset in the cache is the asset of a genesis that the stash
\* stored and for which the Runtime received a non-failure reply to its
\* AddGenesis; this holds in every state, so the confirmation precedes the
\* insert and the cache is never ahead of the stash-confirmed set.
C1_CacheWithinStashConfirmed ==
    \A id \in DOMAIN cacher :
        \E g \in h_confirmed \cap stash_store :
            ContractId(g) = id /\ cacher[id] = AssetOf(g)

C1_Witness ==
    /\ Cardinality(DOMAIN cacher) >= 2
    /\ \E g \in h_confirmed : ContractId(g) \notin DOMAIN cacher

\* C2: when the stash answers AddGenesis with Failure, the operation ends
\* there: add_asset is not called, the cache equals the cache at the time the
\* request was received, and the reply of the request is the storage-domain
\* Failure, never Success.
C2_StashFailureAborts ==
    StashRejected =>
        /\ pc \in {"reply", "recv", "exit"}
        /\ Last(h_events) = "stash.Failure"
        /\ cacher = h_cache0
        /\ ReplyOfRequest = ContractFailure("storage")

C2_Witness ==
    /\ StashRejected
    /\ pc = "recv"
    /\ delivered = ContractFailure("storage")
    /\ cacher # EmptyCache

\* C3 as stated: after a commit that the stash rejected, a cache lookup by
\* the contract id of that commit fails.
C3_RejectedNeverInCache ==
    StashRejected => ~cache_asset(cacher, pending.asset.id).ok

\* C3 as amended: a rejected commit leaves the lookup as it was before the
\* request; the lookup succeeds only when an earlier accepted commit of the
\* same contract id had inserted the asset.
C3_RejectedLeavesLookup ==
    StashRejected =>
        LET id == pending.asset.id
        IN  /\ cache_asset(cacher, id).ok = cache_asset(h_cache0, id).ok
            /\ cache_asset(cacher, id).ok =>
                   /\ pending.asset \in h_completed
                   /\ pending.genesis \in h_confirmed

C3_Witness ==
    /\ StashRejected
    /\ pc = "recv"
    /\ ~cache_asset(cacher, pending.asset.id).ok
    /\ cacher # EmptyCache

\* C4: a Success reply of an issue or import_asset request follows, in this
\* order, the send of AddGenesis, a non-failure stash reply and a cache
\* insert that returned without error; while the request is still before the
\* end of the cache step no reply exists or has been sent.
C4_SuccessAfterStashThenCache ==
    /\ (pc \in {"process", "stash_wait", "cache"} =>
           (reply = NoMsg /\ delivered = NoMsg))
    /\ (ReplyOfRequest.kind = "Success" /\ "processor.transfer" \notin Events) =>
           /\ pending.set
           /\ Len(h_events) >= 3
           /\ h_events[Len(h_events) - 2] = "stash.send"
           /\ h_events[Len(h_events) - 1] = "stash.Success"
           /\ Last(h_events) \in {"cache.inserted", "cache.present"}
           /\ pending.genesis \in h_confirmed
           /\ cache_asset(cacher, pending.asset.id).ok

C4_Witness ==
    /\ pc = "recv"
    /\ delivered = Success
    /\ pending.set
    /\ Last(h_events) = "cache.inserted"

\* C5: an Issue request with a reissuance control and no supply ends in the
\* missing-argument Failure; the Processor is not invoked, nothing is sent on
\* the stash channel and the cache is as it was when the request arrived.
C5_MissingSupplyRejected ==
    /\ (raw.kind = "Issue" /\ pc # "process") =>
           ((raw.inflatable /\ raw.supply = None) =>
               /\ pc \in {"reply", "exit"}
               /\ reply = ContractFailure("api:MissedArgument:supply")
               /\ h_events = <<"err.api">>
               /\ ~pending.set
               /\ cacher = h_cache0)
    /\ "err.api" \in Events =>
           /\ ReplyOfRequest = ContractFailure("api:MissedArgument:supply")
           /\ Events \cap {"processor.issue", "stash.send"} = {}
           /\ ~pending.set
           /\ cacher = h_cache0

C5_Witness ==
    /\ pc = "recv"
    /\ h_events = <<"err.api">>
    /\ delivered = ContractFailure("api:MissedArgument:supply")
    /\ cacher # EmptyCache
    /\ stash_chan = NoMsg

\* C6: the data of a Sync reply is exactly the set of assets whose commits
\* completed before the Sync was received: it holds every asset whose Success
\* was sent, and every asset in it belongs to a commit the stash confirmed.
C6_SyncReflectsCompletedCommits ==
    ReplyOfRequest.kind = "Sync" =>
        /\ ReplyOfRequest.data = h_completed
        /\ h_success \subseteq ReplyOfRequest.data
        /\ ReplyOfRequest.data \subseteq h_success
        /\ \A a \in ReplyOfRequest.data : \E g \in h_confirmed : a = AssetOf(g)

C6_Witness ==
    /\ pc = "recv"
    /\ delivered.kind = "Sync"
    /\ Cardinality(delivered.data) >= 1
    /\ \E g \in stash_store : AssetOf(g) \notin delivered.data

\* C7: a decoding failure or a handler error becomes the Failure reply of the
\* request and does not end the loop: the loop ends only in the receive that
\* precedes the request or in the encode and send of the reply, and after the
\* Failure is sent the loop is ready to receive the next request.
C7_ErrorsBecomeFailureReplies ==
    HandlerErred =>
        /\ pc \in {"reply", "recv", "exit"}
        /\ ReplyOfRequest.kind = "Failure"
        /\ (pc = "recv" => (delivered.kind = "Failure" /\ ENABLED run_recv))

C7_Witness ==
    /\ pc = "recv"
    /\ "err.decode" \in Events
    /\ delivered = RpcFailure

\* C8 as stated: whenever the loop has ended, the cause is a failed receive or
\* send on a socket.
C8_OnlySocketFailuresExit ==
    pc = "exit" => exit_err \in {"recv", "send"}

\* C9: add_asset is idempotent. Adding an asset whose contract id the cache
\* holds leaves the cache as it is and returns false, for every reachable
\* cache and every asset; and a commit of the Runtime whose asset was already
\* cached leaves the cache as it was.
C9_AddAssetIdempotent ==
    /\ \A g \in FungibleGenesis :
           LET once == add_asset(cacher, AssetOf(g))
           IN  \A b \in {AssetOf(g), [AssetOf(g) EXCEPT !.ticker = NoTicker]} :
                   LET twice == add_asset(once.cache, b)
                   IN  /\ twice.cache = once.cache
                       /\ twice.inserted = FALSE
    /\ ("cache.present" \in Events => cacher = h_cache0)
    /\ "cache.inserted" \in Events =>
           /\ cacher # h_cache0
           /\ ~cache_asset(h_cache0, pending.asset.id).ok

C9_Witness ==
    /\ pc = "reply"
    /\ Last(h_events) = "cache.present"
    /\ cacher = h_cache0

C11_UnknownContractRejected ==
    /\ (raw.kind = "Transfer" /\ pc # "process") =>
           (~cache_asset(h_cache0, raw.contract_id).ok =>
               /\ pc \in {"reply", "exit"}
               /\ reply = ContractFailure("storage")
               /\ h_events = <<"err.lookup">>
               /\ ~pending.set)
    /\ "err.lookup" \in Events =>
           /\ h_kind = "Transfer"
           /\ ReplyOfRequest = ContractFailure("storage")
           /\ Events \cap {"processor.transfer", "stash.send"} = {}
           /\ ~pending.set

C11_Witness ==
    /\ pc = "recv"
    /\ h_events = <<"err.lookup">>
    /\ delivered = ContractFailure("storage")
    /\ cacher # EmptyCache

C13_SyncAndTransferChangeNothing ==
    /\ h_kind \in {"Sync", "Transfer"} =>
           /\ cacher = h_cache0
           /\ "stash.send" \notin Events
           /\ ~pending.set
           /\ stash_chan # NoMsg => h_recv_failed
    /\ cacher # h_cache0 =>
           /\ h_kind \in {"Issue", "ImportAsset"}
           /\ Last(h_events) = "cache.inserted"

C13_Witness ==
    /\ pc = "recv"
    /\ h_kind = "Transfer"
    /\ delivered = Success
    /\ cacher = h_cache0
    /\ stash_chan = NoMsg

\* C14: one request at a time, in strict round trips. While a request is
\* being handled no reply to it has been sent; when the Runtime waits for the
\* next request exactly one reply was sent since the last receive; no reply is
\* sent before a request was received; a request is received only while no
\* other is being handled, and a reply is sent only for an unanswered one.
C14_StrictRoundTrips ==
    /\ h_sent \in {0, 1}
    /\ pc \in {"process", "stash_wait", "cache", "reply"} =>
           (h_sent = 0 /\ delivered = NoMsg /\ h_kind # "none")
    /\ (pc = "recv" /\ h_kind # "none") => (h_sent = 1 /\ delivered # NoMsg)
    /\ h_sent = 1 => h_kind # "none"
    /\ ENABLED run_recv => pc = "recv"
    /\ ENABLED run_send => (pc = "reply" /\ h_sent = 0)

C14_Witness ==
    /\ pc = "process"
    /\ h_sent = 0
    /\ h_cache0 # EmptyCache
    /\ h_recv_failed

C16_DispatchedRequestIsAnswered ==
    (pc = "exit" /\ h_kind # "none" /\ h_sent = 0) => exit_err \in {"recv", "send"}

\* C16, the part that holds: the loop steps that are left when the encoding of
\* the reply and the client socket do not fail, under the scheduling the claim
\* assumes (the Runtime keeps running, the stash peer answers); then every
\* dispatched request ends in a sent reply.
NextAnswered ==
    \/ run_recv
    \/ rpc_process_decode_fail
    \/ rpc_issue
    \/ rpc_transfer
    \/ rpc_import_asset
    \/ rpc_sync
    \/ stashd_answer
    \/ import_asset_recv
    \/ import_asset_add
    \/ run_send

SpecAnswered ==
    /\ Init
    /\ [][NextAnswered]_vars
    /\ WF_vars(rpc_process_decode_fail \/ rpc_issue \/ rpc_transfer
                  \/ rpc_import_asset \/ rpc_sync)
    /\ WF_vars(stashd_answer)
    /\ WF_vars(import_asset_recv)
    /\ WF_vars(import_asset_add)
    /\ WF_vars(run_send)

C16_AnsweredWithoutEncodeFailure ==
    (pc = "process") ~> (pc = "recv" /\ h_sent = 1 /\ delivered # NoMsg)

\* the AddGenesis of the request in progress (or last handled) is still in
\* the stash channel, not answered by the stash peer
Unanswered == pending.set /\ stash_chan.kind = "AddGenesis"

\* C17 as stated: while the stash peer has not answered the AddGenesis, the
\* Runtime stays in its receive on the stash channel: no reply exists or was
\* sent, and the cache is unchanged.
C17_BlocksWhileUnanswered ==
    Unanswered =>
        /\ pc = "stash_wait"
        /\ reply = NoMsg
        /\ delivered = NoMsg
        /\ cacher = h_cache0

\* C17 as amended: while the stash peer has not answered and the receive on
\* the stash channel has not failed, the Runtime stays in that receive: no
\* reply exists or was sent, no client request can be received, the cache is
\* unchanged, and no step of the Runtime other than that receive is enabled.
C17_BlocksUntilAnswerOrRecvError ==
    (Unanswered /\ "stash.recv_err" \notin Events) =>
        /\ pc = "stash_wait"
        /\ reply = NoMsg
        /\ delivered = NoMsg
        /\ h_sent = 0
        /\ cacher = h_cache0
        /\ ~ENABLED run_recv
        /\ ~ENABLED run_send
        /\ ~ENABLED import_asset_add
        /\ ~ENABLED (run_recv_fail \/ run_encode_fail \/ run_send_fail)

C17_Witness ==
    /\ Unanswered
    /\ pc = "stash_wait"
    /\ cacher # EmptyCache
    /\ ENABLED stashd_answer

\* C18: assets are never deleted. Every step keeps every contract id of the
\* cache in the cache, with the same asset record.
C18_AssetsNeverDeleted ==
    [][\A id \in DOMAIN cacher : id \in DOMAIN cacher' /\ cacher'[id] = cacher[id]]_vars

C18_Witness ==
    /\ pc = "recv"
    /\ Cardinality(DOMAIN h_cache0) >= 1
    /\ Cardinality(DOMAIN cacher) > Cardinality(DOMAIN h_cache0)
    /\ \A id \in DOMAIN h_cache0 : cache_asset(cacher, id).ok

\* C19: when, in the commit protocol, the send of AddGenesis fails, the
\* receive of the stash reply fails or the reply cannot be decoded, the cache
\* is as it was when the request arrived and the reply of the request is a
\* Failure; the error does not end the loop, which is ready for the next
\* request once the Failure is sent.
StashChannelErred == Events \cap {"err.send", "stash.recv_err", "stash.garbage"} # {}

C19_StashChannelErrorsBecomeFailures ==
    StashChannelErred =>
        /\ pc \in {"reply", "recv", "exit"}
        /\ cacher = h_cache0
        /\ ReplyOfRequest.kind = "Failure"
        /\ ReplyOfRequest.domain \in {"transport", "rpc"}
        /\ pending.asset \notin h_completed \ export(h_cache0)
        /\ pc = "recv" => (h_sent = 1 /\ delivered.kind = "Failure" /\ ENABLED run_recv)

C19_Witness ==
    /\ pc = "process"
    /\ h_recv_failed
    /\ stash_chan.kind = "garbage"
    /\ cacher # EmptyCache

\* the number of AddGenesis messages the request in progress has sent
StashSends == Cardinality({i \in DOMAIN h_events : h_events[i] = "stash.send"})

\* C20 as stated: whenever the Runtime waits for the next client request the
\* stash channel is idle, every AddGenesis sent having had its reply
\* received; and a request sends at most one AddGenesis.
C20_StashLockstep ==
    /\ pc = "recv" => stash_chan = NoMsg
    /\ StashSends <= 1

\* C20 as amended: whenever the Runtime waits for the next client request the
\* stash channel is idle unless a receive on the stash channel has failed;
\* and a request sends at most one AddGenesis, which only an Issue or
\* ImportAsset request does.
C20_StashLockstepUnlessRecvFailed ==
    /\ (pc = "recv" /\ ~h_recv_failed) => stash_chan = NoMsg
    /\ StashSends <= 1
    /\ StashSends = 1 => (pending.set /\ h_kind \in {"Issue", "ImportAsset"})
    /\ (stash_chan # NoMsg /\ ~h_recv_failed) =>
           (pc = "stash_wait" /\ Last(h_events) = "stash.send")

C20_Witness ==
    /\ pc = "recv"
    /\ StashSends = 1
    /\ ~h_recv_failed
    /\ stash_chan = NoMsg
    /\ delivered = Success

====
